---- MODULE Spec2Model ----
(***************************************************************************)
(* Model of the DFA lexer of compy (src/lexer.py, class Lexer).            *)
(*                                                                         *)
(* A character is a one-character string, a source text is a sequence of   *)
(* characters, a lexeme is a string (built with \o exactly as the code     *)
(* builds current_token with +).  A token is the triple                    *)
(* <<token_type, token_value, line_number>> the code appends.              *)
(*                                                                         *)
(* The state is one Lexer instance (its attributes), the position of the   *)
(* caller in that instance's life (pc, entered_from), and what the caller  *)
(* remembers of the previous instance built over the same text.            *)
(***************************************************************************)
EXTENDS Integers, Sequences, FiniteSets, TLC

VARIABLES
    input,          \* the text the caller hands to Lexer(source_code=...)
    source_code,    \* self.source_code (after lstrip)
    tokens,         \* self.tokens
    current_token,  \* self.current_token
    line_number,    \* self.line_number
    index,          \* self.index (0-based, as in the code)
    state,          \* self.state ("UNSET" until tokenize assigns it)
    pc,             \* "constructed" | "loop" | "returned" | "failed"
    error,          \* <<>> or <<character, line>> of the ValueError raised
    entered_from,   \* pc at the entry of the latest tokenize() call
    first_tokens,   \* tokens of the previous instance over the same text
    first_outcome   \* pc that instance ended in ("none": there was none)

vars == <<input, source_code, tokens, current_token, line_number, index,
          state, pc, error, entered_from, first_tokens, first_outcome>>

lexer_vars == <<source_code, tokens, current_token, line_number, index, state>>
caller_vars == <<input, first_tokens, first_outcome>>

----------------------------------------------------------------------------
(* Bounds of the model *)

\* longest text of the exhaustive family (every string over Chars)
MaxLen == 4
\* most (lexeme, separator) items of the spaced-program family
MaxWords == 2

----------------------------------------------------------------------------
(* Character classes: str.isdigit, str.isalpha, str.isalnum on ASCII text *)

Digits == {"0", "1", "2", "3", "4", "5", "6", "7", "8", "9"}

Letters ==
    {"a", "b", "c", "d", "e", "f", "g", "h", "i", "j", "k", "l", "m",
     "n", "o", "p", "q", "r", "s", "t", "u", "v", "w", "x", "y", "z",
     "A", "B", "C", "D", "E", "F", "G", "H", "I", "J", "K", "L", "M",
     "N", "O", "P", "Q", "R", "S", "T", "U", "V", "W", "X", "Y", "Z"}

IsDigit(c) == c \in Digits
IsAlpha(c) == c \in Letters
IsAlnum(c) == IsAlpha(c) \/ IsDigit(c)

\* the characters str.lstrip() removes (ASCII whitespace)
Whitespace == {" ", "\t", "\n", "\r", "\f"}

\* next_char in "+-*/<>="
OperatorChars == {"+", "-", "*", "/", "<", ">", "="}

\* next_char in "{}()="
SingleChars == {"{", "}", "(", ")", "="}

\* token_map of _handle_start_state
\* (a map with the two braces exchanged)
token_mapBracesExchanged(c) ==
    CASE c = "{" -> "RBRACE"
      [] c = "}" -> "LBRACE"
      [] c = "(" -> "LPAREN"
      [] c = ")" -> "RPAREN"
      [] c = "=" -> "ASSIGN"

token_map(c) ==
    CASE c = "{" -> "LBRACE"
      [] c = "}" -> "RBRACE"
      [] c = "(" -> "LPAREN"
      [] c = ")" -> "RPAREN"
      [] c = "=" -> "ASSIGN"

\* {"if", "else", "while"} and str.upper on them
Keywords == {"if", "else", "while"}

Upper(w) ==
    CASE w = "if" -> "IF"
      [] w = "else" -> "ELSE"
      [] w = "while" -> "WHILE"

----------------------------------------------------------------------------
(* str.lstrip *)

\* a strip that removes nothing
lstripNothing(s) == s

RECURSIVE lstrip(_)
lstrip(s) ==
    IF s # <<>> /\ Head(s) \in Whitespace THEN lstrip(Tail(s)) ELSE s

----------------------------------------------------------------------------
(* The texts the caller may hand to the lexer *)

\* alphabet of the exhaustive family: one character of every class the
\* lexer distinguishes ("i","f" spell a keyword)
Chars == {"5", "i", "f", "+", "/", "=", " ", "\n", "{", "$"}

Strings(n) == UNION {[1..k -> Chars] : k \in 0..n}

\* lexemes and separators of the spaced-program family
Words ==
    { <<"x">>, <<"_", "a", "1">>, <<"i", "f">>, <<"e", "l", "s", "e">>,
      <<"w", "h", "i", "l", "e">>, <<"4", "2">>, <<"+">>, <<"/">>, <<"<">>,
      <<"=">>, <<"(">>, <<"}">>, <<"/", "/", "$", "=">> }

Separators == { <<" ">>, <<"\n">> }

Items == { w \o s : w \in Words, s \in Separators }

RECURSIVE Flatten(_)
Flatten(ss) == IF ss = <<>> THEN <<>> ELSE Head(ss) \o Flatten(Tail(ss))

Programs(n) == { Flatten(p) : p \in UNION {[1..k -> Items] : k \in 0..n} }

\* the inputs of the spec's scenarios A..E
ScenarioA == <<"x", " ", "=", " ", "5", " ", "+", " ", "3">>
ScenarioB == <<"/", "/", " ", "c", "\n",
               "i", "f", " ", "x", " ", ">", " ", "5", " ", "{">>
ScenarioC == <<"x", " ", "<", "=", " ", "3">>
ScenarioD == <<"x", " ", "$", " ", "y">>
ScenarioE == <<"}">>

\* source_code and expected of TestLexer.test_lexer
TestSource ==
    <<"\n", " ", " ", " ", " ", " ", " ", " ", " ", " ", " ", " ", " ",
      "x", " ", "=", " ", "5", " ", "+", " ", "3", "\n", " ", " ", " ",
      " ", " ", " ", " ", " ", " ", " ", " ", " ", "/", "/", " ", "T", "h",
      "i", "s", " ", "i", "s", " ", "a", " ", "c", "o", "m", "m", "e", "n",
      "t", "\n", " ", " ", " ", " ", " ", " ", " ", " ", " ", " ", " ",
      " ", "i", "f", " ", "x", " ", ">", " ", "5", " ", "{", "\n", " ",
      " ", " ", " ", " ", " ", " ", " ", " ", " ", " ", " ", " ", " ", " ",
      " ", "y", " ", "=", " ", "x", " ", "-", " ", "2", "\n", " ", " ",
      " ", " ", " ", " ", " ", " ", " ", " ", " ", " ", "}", " ", "e", "l",
      "s", "e", " ", "{", "\n", " ", " ", " ", " ", " ", " ", " ", " ",
      " ", " ", " ", " ", " ", " ", " ", " ", "y", " ", "=", " ", "0",
      "\n", " ", " ", " ", " ", " ", " ", " ", " ", " ", " ", " ", " ",
      "}", "\n", " ", " ", " ", " ", " ", " ", " ", " ", " ", " ", " ",
      " ">>

TestExpected ==
    <<<<"IDENTIFIER", "x", 1>>,
      <<"ASSIGN", "=", 1>>,
      <<"NUMBER", "5", 1>>,
      <<"OPERATOR", "+", 1>>,
      <<"NUMBER", "3", 1>>,
      <<"IF", "if", 3>>,
      <<"IDENTIFIER", "x", 3>>,
      <<"OPERATOR", ">", 3>>,
      <<"NUMBER", "5", 3>>,
      <<"LBRACE", "{", 3>>,
      <<"IDENTIFIER", "y", 4>>,
      <<"ASSIGN", "=", 4>>,
      <<"IDENTIFIER", "x", 4>>,
      <<"OPERATOR", "-", 4>>,
      <<"NUMBER", "2", 4>>,
      <<"RBRACE", "}", 5>>,
      <<"ELSE", "else", 5>>,
      <<"LBRACE", "{", 5>>,
      <<"IDENTIFIER", "y", 6>>,
      <<"ASSIGN", "=", 6>>,
      <<"NUMBER", "0", 6>>,
      <<"RBRACE", "}", 7>>>>

\* a text separated by tabs
TabbedSource == <<"\t", "x", "\t", "=", "\t", "4", "2", "\n">>

\* three blank lines before a two-line text
BlankLinesSource == <<"\n", "\n", " ", "\n", "x", "\n", "5", "\n">>

\* texts whose tokens touch: 5+3 and f( , each followed by a space
ExampleSum == <<"5", "+", "3", " ">>
ExampleCall == <<"f", "(", " ">>

\* a comment that touches the number before it: 5//$$
CommentAfterNumber == <<"5", "/", "/", "$", "$">>

Scenarios ==
    {ScenarioA, ScenarioB, ScenarioC, ScenarioD, ScenarioE, TestSource,
     TabbedSource, BlankLinesSource, ExampleSum, ExampleCall,
     CommentAfterNumber}

Inputs == Strings(MaxLen) \cup Programs(MaxWords) \cup Scenarios

----------------------------------------------------------------------------
(* Lexer.__init__ *)

\* self.line_number = 1
FirstLineZeroBased == 1 - 1
FirstLine == 1

Init ==
    /\ input \in Inputs
    /\ source_code = lstrip(input)
    /\ tokens = <<>>
    /\ current_token = ""
    /\ line_number = FirstLine
    /\ index = 0
    /\ state = "UNSET"
    /\ pc = "constructed"
    /\ error = <<>>
    /\ entered_from = "none"
    /\ first_tokens = <<>>
    /\ first_outcome = "none"

----------------------------------------------------------------------------
(* Lexer.tokenize: entry *)

\* an entry that rewinds the cursor
TokenizeRewinds ==
    /\ pc \in {"constructed", "returned", "failed"}
    /\ entered_from' = pc
    /\ state' = "START"
    /\ pc' = "loop"
    /\ error' = <<>>
    /\ index' = 0
    /\ UNCHANGED <<source_code, tokens, current_token, line_number>>
    /\ UNCHANGED caller_vars

Tokenize ==
    /\ pc \in {"constructed", "returned", "failed"}
    /\ entered_from' = pc
    /\ state' = "START"
    /\ pc' = "loop"
    /\ error' = <<>>
    /\ UNCHANGED <<source_code, tokens, current_token, line_number, index>>
    /\ UNCHANGED caller_vars

\* next_char = self.source_code[self.index]
next_char == source_code[index + 1]

InLoop == pc = "loop" /\ index < Len(source_code)

\* _append_token_then_transists_start: the list after the append
AppendToken(token_type, token_value) ==
    Append(tokens, <<token_type, token_value, line_number>>)

\* the "if next_char == '\n': self.line_number += 1" that follows the
\* emission in the number, identifier and operator handlers
LineAfter(c) == IF c = "\n" THEN line_number + 1 ELSE line_number

----------------------------------------------------------------------------
(* Lexer._handle_start_state, with the loop's index += 1; the last branch *)
(* is the raise, caught by tokenize's except: log and return              *)

\* an unexpected character handled as blank space
SkipUnexpected(c) ==
    /\ state' = "START"
    /\ current_token' = ""
    /\ index' = index + 1
    /\ UNCHANGED <<source_code, tokens, line_number, pc, error>>

\* raise ValueError(character, line), caught in tokenize: logged, return
RaiseUnexpected(c) ==
    /\ error' = <<c, line_number>>
    /\ pc' = "failed"
    /\ UNCHANGED lexer_vars

HandleStartState ==
    /\ InLoop
    /\ state = "START"
    /\ UNCHANGED <<source_code, entered_from>>
    /\ UNCHANGED caller_vars
    /\ LET c == next_char IN
       CASE IsDigit(c) ->
              /\ state' = "IN_NUMBER"
              /\ current_token' = current_token \o c
              /\ index' = index + 1
              /\ UNCHANGED <<tokens, line_number, pc, error>>
         [] ~IsDigit(c) /\ (IsAlpha(c) \/ c = "_") ->
              /\ state' = "IN_IDENTIFIER"
              /\ current_token' = current_token \o c
              /\ index' = index + 1
              /\ UNCHANGED <<tokens, line_number, pc, error>>
         [] c \in OperatorChars ->
              /\ state' = "IN_OPERATOR"
              /\ current_token' = current_token \o c
              /\ index' = index + 1
              /\ UNCHANGED <<tokens, line_number, pc, error>>
         [] c \in {" ", "\t"} ->
              /\ state' = "START"
              /\ current_token' = ""
              /\ index' = index + 1
              /\ UNCHANGED <<tokens, line_number, pc, error>>
         [] c = "\n" ->
              /\ line_number' = line_number + 1
              /\ state' = "START"
              /\ current_token' = ""
              /\ index' = index + 1
              /\ UNCHANGED <<tokens, pc, error>>
         [] c \in SingleChars \ OperatorChars ->
              /\ tokens' = AppendToken(token_map(c), c)
              /\ state' = "START"
              /\ current_token' = ""
              /\ index' = index + 1
              /\ UNCHANGED <<line_number, pc, error>>
         [] OTHER -> RaiseUnexpected(c)

----------------------------------------------------------------------------
(* Lexer._handle_in_number_state, with the loop's index += 1 *)

HandleInNumberState ==
    /\ InLoop
    /\ state = "IN_NUMBER"
    /\ UNCHANGED <<source_code, entered_from, pc, error>>
    /\ UNCHANGED caller_vars
    /\ LET c == next_char IN
       IF IsDigit(c)
       THEN /\ state' = "IN_NUMBER"
            /\ current_token' = current_token \o c
            /\ UNCHANGED <<tokens, line_number>>
       ELSE /\ tokens' = AppendToken("NUMBER", current_token)
            /\ line_number' = LineAfter(c)
            /\ state' = "START"
            /\ current_token' = ""
    /\ index' = index + 1

----------------------------------------------------------------------------
(* Lexer._handle_in_identifier_state, with the loop's index += 1 *)

\* token_type of the emitted identifier or keyword
IdentifierNeverKeyword(w) == "IDENTIFIER"
IdentifierKind(w) == IF w \in Keywords THEN Upper(w) ELSE "IDENTIFIER"

HandleInIdentifierState ==
    /\ InLoop
    /\ state = "IN_IDENTIFIER"
    /\ UNCHANGED <<source_code, entered_from, pc, error>>
    /\ UNCHANGED caller_vars
    /\ LET c == next_char IN
       /\ IF IsAlnum(c) \/ c = "_"
          THEN /\ state' = "IN_IDENTIFIER"
               /\ current_token' = current_token \o c
               /\ UNCHANGED tokens
          ELSE /\ tokens' = AppendToken(IdentifierKind(current_token),
                                        current_token)
               /\ state' = "START"
               /\ current_token' = ""
       /\ line_number' = LineAfter(c)
    /\ index' = index + 1

----------------------------------------------------------------------------
(* Lexer._handle_in_operator_state, with the loop's index += 1 *)

HandleInOperatorState ==
    /\ InLoop
    /\ state = "IN_OPERATOR"
    /\ UNCHANGED <<source_code, entered_from, pc, error>>
    /\ UNCHANGED caller_vars
    /\ LET c == next_char IN
       /\ CASE current_token = "/" /\ c = "/" ->
                 /\ state' = "IN_COMMENT"
                 /\ current_token' = ""
                 /\ index' = index + 1
                 /\ UNCHANGED tokens
            [] ~(current_token = "/" /\ c = "/")
               /\ current_token = "=" /\ c # "=" ->
                 /\ tokens' = AppendToken("ASSIGN", current_token)
                 /\ state' = "START"
                 /\ current_token' = ""
                 /\ index' = index + 1
            [] OTHER ->
                 \* compound operator: the "=" is appended and skipped
                 /\ tokens' = AppendToken("OPERATOR",
                        IF c = "=" THEN current_token \o c ELSE current_token)
                 /\ state' = "START"
                 /\ current_token' = ""
                 /\ index' = (IF c = "=" THEN index + 1 ELSE index) + 1
       /\ line_number' = LineAfter(c)

----------------------------------------------------------------------------
(* Lexer._handle_in_comment_state, with the loop's index += 1 *)

\* the while loop: the first position at or after i holding a newline, or
\* len(source_code)
RECURSIVE SkipToNewline(_)
SkipToNewline(i) ==
    IF i < Len(source_code) /\ source_code[i + 1] # "\n"
    THEN SkipToNewline(i + 1)
    ELSE i

\* the line counter after the handler: both increments
CommentLineKept(c) == IF c = "\n" THEN line_number + 1 ELSE line_number
CommentLine(c) == (IF c = "\n" THEN line_number + 1 ELSE line_number) + 1

\* a handler that steps back so that the newline is dispatched at START
HandleInCommentStateRedispatch ==
    /\ InLoop
    /\ state = "IN_COMMENT"
    /\ UNCHANGED <<source_code, tokens, entered_from, pc, error>>
    /\ UNCHANGED caller_vars
    /\ line_number' = line_number
    /\ index' = SkipToNewline(index)
    /\ state' = "START"
    /\ current_token' = ""

HandleInCommentState ==
    /\ InLoop
    /\ state = "IN_COMMENT"
    /\ UNCHANGED <<source_code, tokens, entered_from, pc, error>>
    /\ UNCHANGED caller_vars
    /\ line_number' = CommentLine(next_char)
    /\ index' = SkipToNewline(index) + 1
    /\ state' = "START"
    /\ current_token' = ""

----------------------------------------------------------------------------
(* Lexer.tokenize: the while condition fails, the method returns *)

LoopExit ==
    /\ pc = "loop"
    /\ ~(index < Len(source_code))
    /\ pc' = "returned"
    /\ UNCHANGED <<lexer_vars, error, entered_from>>
    /\ UNCHANGED caller_vars

----------------------------------------------------------------------------
(* The caller builds another Lexer over the same text: Lexer.__init__ *)

NewLexer ==
    /\ pc \in {"returned", "failed"}
    /\ first_tokens' = tokens
    /\ first_outcome' = pc
    /\ source_code' = lstrip(input)
    /\ tokens' = <<>>
    /\ current_token' = ""
    /\ line_number' = FirstLine
    /\ index' = 0
    /\ state' = "UNSET"
    /\ pc' = "constructed"
    /\ error' = <<>>
    /\ entered_from' = "none"
    /\ UNCHANGED input

----------------------------------------------------------------------------

Next ==
    \/ Tokenize
    \/ HandleStartState
    \/ HandleInNumberState
    \/ HandleInIdentifierState
    \/ HandleInOperatorState
    \/ HandleInCommentState
    \/ LoopExit
    \/ NewLexer

Spec == Init /\ [][Next]_vars

----------------------------------------------------------------------------
(* One Lexer instance under a caller that lets every call run: tokenize    *)
(* is synchronous, so a step of the loop that can be taken is taken.       *)

InitOne ==
    /\ input \in Strings(MaxLen) \cup Scenarios
    /\ source_code = lstrip(input)
    /\ tokens = <<>>
    /\ current_token = ""
    /\ line_number = FirstLine
    /\ index = 0
    /\ state = "UNSET"
    /\ pc = "constructed"
    /\ error = <<>>
    /\ entered_from = "none"
    /\ first_tokens = <<>>
    /\ first_outcome = "none"

NextOne ==
    \/ Tokenize
    \/ HandleStartState
    \/ HandleInNumberState
    \/ HandleInIdentifierState
    \/ HandleInOperatorState
    \/ HandleInCommentState
    \/ LoopExit

FairSpec == InitOne /\ [][NextOne]_vars /\ WF_vars(NextOne)

----------------------------------------------------------------------------
(* Helpers of the properties *)

Finished == pc \in {"returned", "failed"}

\* the string a sequence of characters spells
RECURSIVE Str(_)
Str(cs) == IF cs = <<>> THEN "" ELSE Head(cs) \o Str(Tail(cs))

\* the lexemes of a token sequence, concatenated
RECURSIVE Lexemes(_)
Lexemes(ts) == IF ts = <<>> THEN "" ELSE Head(ts)[2] \o Lexemes(Tail(ts))

\* the recognized characters of Start
Recognized ==
    Digits \cup Letters \cup {"_"} \cup {"+", "-", "*", "/", "<", ">", "="}
    \cup {" ", "\t", "\n"} \cup {"{", "}", "(", ")"}

\* first position j >= i of s that holds a newline, Len(s) + 1 if none
RECURSIVE NewlineFrom(_, _)
NewlineFrom(s, i) ==
    IF i > Len(s) \/ s[i] = "\n" THEN i ELSE NewlineFrom(s, i + 1)

----------------------------------------------------------------------------
(* Reference reading of a spaced source: lexemes separated by spaces and   *)
(* newlines, and non-empty // comments that run to the end of their line   *)

\* first position j >= i of s that holds a space or a newline
RECURSIVE WordEnd(_, _)
WordEnd(s, i) ==
    IF i > Len(s) \/ s[i] \in {" ", "\n"} THEN i ELSE WordEnd(s, i + 1)

\* the kind of a whole word, "NONE" when it is no single lexeme
WordKind(w) ==
    CASE \A k \in 1..Len(w) : w[k] \in Digits -> "NUMBER"
      [] /\ w[1] \in Letters \cup {"_"}
         /\ \A k \in 1..Len(w) : w[k] \in Letters \cup Digits \cup {"_"} ->
           (CASE Str(w) = "if" -> "IF"
              [] Str(w) = "else" -> "ELSE"
              [] Str(w) = "while" -> "WHILE"
              [] OTHER -> "IDENTIFIER")
      [] Len(w) = 1 /\ w[1] \in {"+", "-", "*", "/", "<", ">"} -> "OPERATOR"
      [] w = <<"=">> -> "ASSIGN"
      [] w = <<"{">> -> "LBRACE"
      [] w = <<"}">> -> "RBRACE"
      [] w = <<"(">> -> "LPAREN"
      [] w = <<")">> -> "RPAREN"
      [] OTHER -> "NONE"

\* [ok |-> the text from position i on is a spaced source,
\*  toks |-> its tokens, the first line being ln]
RECURSIVE Spaced(_, _, _)
Spaced(s, i, ln) ==
    IF i > Len(s) THEN [ok |-> TRUE, toks |-> <<>>]
    ELSE IF s[i] = " " THEN Spaced(s, i + 1, ln)
    ELSE IF s[i] = "\n" THEN Spaced(s, i + 1, ln + 1)
    ELSE IF s[i] = "/" /\ i + 1 <= Len(s) /\ s[i + 1] = "/"
    THEN IF i + 2 <= Len(s) /\ s[i + 2] # "\n"
         THEN Spaced(s, NewlineFrom(s, i + 2) + 1, ln + 1)
         ELSE [ok |-> FALSE, toks |-> <<>>]
    ELSE LET j == WordEnd(s, i)
             w == SubSeq(s, i, j - 1)
             rest == Spaced(s, j, ln)
         IN  IF j <= Len(s) /\ WordKind(w) # "NONE"
             THEN [ok |-> rest.ok,
                   toks |-> <<<<WordKind(w), Str(w), ln>>>> \o rest.toks]
             ELSE [ok |-> FALSE, toks |-> <<>>]

WellSpaced(s) == Spaced(s, 1, 1).ok
SpacedTokens(s) == Spaced(s, 1, 1).toks

----------------------------------------------------------------------------
(* C1: on a source made of identifiers, keywords, numbers, one-character   *)
(* operators, bare =, braces, parentheses and non-empty // comments, every *)
(* token followed by a space or a newline, tokenize succeeds and emits     *)
(* exactly one token per lexeme, in source order, of the right kind, with  *)
(* line = 1 + the number of newlines before the lexeme in the stripped     *)
(* source.                                                                 *)

C1_SpacedSourceTokens ==
    (Finished /\ WellSpaced(source_code))
        => (pc = "returned" /\ tokens = SpacedTokens(source_code))

\* the repository's test: its source is spaced, its expected list is met
C1_Witness ==
    /\ pc = "returned"
    /\ input = TestSource
    /\ WellSpaced(source_code)
    /\ tokens = TestExpected

----------------------------------------------------------------------------
(* C2: when the input ends in InNumber, InIdentifier or InOperator with a  *)
(* non-empty buffer, one final token of that kind, with the buffer as      *)
(* lexeme and the current line, is emitted; scenario A, x = 5 + 3, yields  *)
(* IDENTIFIER x, ASSIGN =, NUMBER 5, OPERATOR +, NUMBER 3, all on line 1.  *)

ExpectedA ==
    << <<"IDENTIFIER", "x", 1>>, <<"ASSIGN", "=", 1>>, <<"NUMBER", "5", 1>>,
       <<"OPERATOR", "+", 1>>, <<"NUMBER", "3", 1>> >>

\* the kind the flushed buffer would have
FlushKind ==
    CASE state = "IN_NUMBER" -> "NUMBER"
      [] state = "IN_IDENTIFIER" ->
           (CASE current_token = "if" -> "IF"
              [] current_token = "else" -> "ELSE"
              [] current_token = "while" -> "WHILE"
              [] OTHER -> "IDENTIFIER")
      [] state = "IN_OPERATOR" ->
           (IF current_token = "=" THEN "ASSIGN" ELSE "OPERATOR")
      [] OTHER -> "NONE"

C2_EndOfInputFlush ==
    /\ (/\ pc = "returned"
        /\ state \in {"IN_NUMBER", "IN_IDENTIFIER", "IN_OPERATOR"}
        /\ current_token # "")
          => (/\ tokens # <<>>
              /\ tokens[Len(tokens)] = <<FlushKind, current_token, line_number>>)
    /\ (pc = "returned" /\ input = ScenarioA) => tokens = ExpectedA

----------------------------------------------------------------------------
(* C3: a character dispatched in Start that belongs to no recognized class *)
(* makes the scan fail with that character and the current line; the scan  *)
(* stops there: the tokens are those emitted before the character, none is *)
(* appended afterwards and the cursor does not advance.  Scenario D,       *)
(* x $ y, fails with ($, 1) after emitting only IDENTIFIER x.              *)

AtUnexpected ==
    /\ pc = "loop"
    /\ state = "START"
    /\ index < Len(source_code)
    /\ source_code[index + 1] \notin Recognized

C3_FailedState ==
    /\ pc = "failed" =>
          /\ state = "START"
          /\ index < Len(source_code)
          /\ source_code[index + 1] \notin Recognized
          /\ error = <<source_code[index + 1], line_number>>
    /\ input = ScenarioD =>
          /\ pc # "returned"
          /\ pc = "failed" =>
                /\ tokens = << <<"IDENTIFIER", "x", 1>> >>
                /\ error = <<"$", 1>>

C3_FailStep ==
    /\ AtUnexpected =>
          /\ pc' = "failed"
          /\ error' = <<source_code[index + 1], line_number>>
          /\ tokens' = tokens
          /\ index' = index
    /\ (pc = "failed" /\ pc' # "constructed") =>
          /\ tokens' = tokens
          /\ index' = index

C3_UnexpectedCharacter == [](C3_FailedState) /\ [][C3_FailStep]_vars

C3_Witness ==
    /\ pc = "failed"
    /\ input = ScenarioD
    /\ entered_from = "failed"
    /\ tokens = << <<"IDENTIFIER", "x", 1>> >>
    /\ error = <<"$", 1>>

----------------------------------------------------------------------------
(* C4: no-loss.  Every character of the scanned portion of the source is   *)
(* discarded blank space, discarded comment text, or part of exactly one   *)
(* emitted lexeme: the lexemes concatenated in order are the scanned       *)
(* portion with its blank space and comments taken out.                    *)

\* the text from position i on without blank space and // comments
RECURSIVE Kept(_, _)
Kept(s, i) ==
    IF i > Len(s) THEN ""
    ELSE IF s[i] \in {" ", "\t", "\n"} THEN Kept(s, i + 1)
    ELSE IF s[i] = "/" /\ i + 1 <= Len(s) /\ s[i + 1] = "/"
    THEN Kept(s, NewlineFrom(s, i + 2) + 1)
    ELSE s[i] \o Kept(s, i + 1)

\* the characters the scan has gone past
Scanned ==
    SubSeq(source_code, 1,
           IF index < Len(source_code) THEN index ELSE Len(source_code))

C4_NoLoss == Finished => Lexemes(tokens) = Kept(Scanned, 1)

----------------------------------------------------------------------------
(* C5: compound-operator exclusivity.  An = immediately followed by =      *)
(* yields exactly one OPERATOR == and no ASSIGN; a bare =, whatever        *)
(* follows it, the end of input included, yields exactly one ASSIGN =.     *)
(* Stated on the sources whose only operator character is =.               *)

CountTokens(kind, lexeme) ==
    Cardinality({k \in 1..Len(tokens) :
                    tokens[k][1] = kind /\ tokens[k][2] = lexeme})

CountKind(kind) ==
    Cardinality({k \in 1..Len(tokens) : tokens[k][1] = kind})

OnlyEqualsOperators(s) ==
    \A k \in 1..Len(s) :
        s[k] \in {"+", "-", "*", "/", "<", ">", "="} => s[k] = "="

\* [bare |-> number of = standing alone, double |-> number of == pairs],
\* reading s from position i, left to right
RECURSIVE EqualsFrom(_, _)
EqualsFrom(s, i) ==
    IF i > Len(s) THEN [bare |-> 0, double |-> 0]
    ELSE IF s[i] # "=" THEN EqualsFrom(s, i + 1)
    ELSE IF i + 1 <= Len(s) /\ s[i + 1] = "="
    THEN LET r == EqualsFrom(s, i + 2)
         IN  [bare |-> r.bare, double |-> r.double + 1]
    ELSE LET r == EqualsFrom(s, i + 1)
         IN  [bare |-> r.bare + 1, double |-> r.double]

C5_CompoundExclusivity ==
    (pc = "returned" /\ OnlyEqualsOperators(source_code)) =>
        /\ CountKind("ASSIGN") = EqualsFrom(source_code, 1).bare
        /\ CountTokens("ASSIGN", "=") = CountKind("ASSIGN")
        /\ CountKind("OPERATOR") = EqualsFrom(source_code, 1).double
        /\ CountTokens("OPERATOR", "==") = CountKind("OPERATOR")

----------------------------------------------------------------------------
(* C6: keyword precedence.  No IDENTIFIER token has lexeme if, else or     *)
(* while, and every identifier-shaped lexeme of the source that is         *)
(* exactly one of these words is emitted as one IF, ELSE or WHILE token.   *)
(* The second half is stated on the sources that hold no /.                *)

IdentChar(c) == c \in Letters \cup Digits \cup {"_"}

\* first position j >= i of s that holds no identifier character
RECURSIVE IdentEnd(_, _)
IdentEnd(s, i) ==
    IF i > Len(s) \/ ~IdentChar(s[i]) THEN i ELSE IdentEnd(s, i + 1)

\* the maximal runs of identifier characters of s that spell w
WordCount(s, w) ==
    Cardinality({k \in 1..Len(s) :
        /\ IdentChar(s[k])
        /\ (k = 1 \/ ~IdentChar(s[k - 1]))
        /\ Str(SubSeq(s, k, IdentEnd(s, k) - 1)) = w})

NoSlash(s) == \A k \in 1..Len(s) : s[k] # "/"

C6_KeywordPrecedence ==
    /\ \A k \in 1..Len(tokens) :
          tokens[k][1] = "IDENTIFIER" => tokens[k][2] \notin {"if", "else", "while"}
    /\ (pc = "returned" /\ NoSlash(source_code)) =>
          /\ CountTokens("IF", "if") = WordCount(source_code, "if")
          /\ CountTokens("ELSE", "else") = WordCount(source_code, "else")
          /\ CountTokens("WHILE", "while") = WordCount(source_code, "while")

----------------------------------------------------------------------------
(* C7: every maximal run of digits of the source that is not inside an     *)
(* identifier or a comment is emitted as exactly one NUMBER token whose    *)
(* lexeme is the whole run: never split, dropped or merged.  Stated on the *)
(* sources that hold no /.                                                 *)

\* first position j >= i of s that holds no digit
RECURSIVE DigitsEnd(_, _)
DigitsEnd(s, i) ==
    IF i > Len(s) \/ s[i] \notin Digits THEN i ELSE DigitsEnd(s, i + 1)

\* the maximal digit runs of s outside identifiers, from position i on
RECURSIVE DigitRuns(_, _)
DigitRuns(s, i) ==
    IF i > Len(s) THEN <<>>
    ELSE IF s[i] \in Digits /\ (i = 1 \/ ~IdentChar(s[i - 1]))
    THEN <<Str(SubSeq(s, i, DigitsEnd(s, i) - 1))>>
            \o DigitRuns(s, DigitsEnd(s, i))
    ELSE DigitRuns(s, i + 1)

\* the lexemes of the NUMBER tokens, in order
RECURSIVE NumberLexemes(_)
NumberLexemes(ts) ==
    IF ts = <<>> THEN <<>>
    ELSE (IF Head(ts)[1] = "NUMBER" THEN <<Head(ts)[2]>> ELSE <<>>)
            \o NumberLexemes(Tail(ts))

C7_DigitRuns ==
    (pc = "returned" /\ NoSlash(source_code)) =>
        NumberLexemes(tokens) = DigitRuns(source_code, 1)

----------------------------------------------------------------------------
(* C8: line monotonicity.  In every reachable state the line fields of the *)
(* emitted tokens are non-decreasing from first to last, and each is an    *)
(* integer >= 1.                                                           *)

C8_LineMonotonic ==
    \A k \in 1..Len(tokens) :
        /\ tokens[k][3] \in Int
        /\ tokens[k][3] >= 1
        /\ k > 1 => tokens[k - 1][3] <= tokens[k][3]

\* tokens on at least three different lines
C8_Witness ==
    \E j, k \in 1..Len(tokens) :
        /\ j < k
        /\ tokens[1][3] < tokens[j][3]
        /\ tokens[j][3] < tokens[k][3]

----------------------------------------------------------------------------
(* C9: determinism.  A second Lexer built over the same text ends with the *)
(* same tokens and the same outcome as the first, and a further call of    *)
(* tokenize on an instance that has returned or failed ends in the same    *)
(* outcome and leaves its token sequence as it was.                        *)

C9_SameResult ==
    /\ (Finished /\ first_outcome # "none") =>
          (tokens = first_tokens /\ pc = first_outcome)
    /\ (Finished /\ entered_from \in {"returned", "failed"}) =>
          pc = entered_from

C9_ReCallStep ==
    (entered_from' \in {"returned", "failed"}) => tokens' = tokens

C9_Determinism == [](C9_SameResult) /\ [][C9_ReCallStep]_vars

\* the second instance has failed a second time where the first one failed
C9_Witness ==
    /\ pc = "failed"
    /\ entered_from = "failed"
    /\ first_outcome = "failed"
    /\ Len(tokens) >= 2
    /\ tokens = first_tokens

----------------------------------------------------------------------------
(* C10: scenario B.  The comment line // c, a newline, then if x > 5 {     *)
(* yields IF if, IDENTIFIER x, OPERATOR >, NUMBER 5, LBRACE {, every token *)
(* on line 2; the comment emits nothing.                                   *)

ExpectedB ==
    << <<"IF", "if", 2>>, <<"IDENTIFIER", "x", 2>>, <<"OPERATOR", ">", 2>>,
       <<"NUMBER", "5", 2>>, <<"LBRACE", "{", 2>> >>

C10_ScenarioB ==
    input = ScenarioB =>
        /\ pc # "failed"
        /\ pc = "returned" => tokens = ExpectedB

C10_Witness ==
    /\ input = ScenarioB
    /\ pc = "returned"
    /\ entered_from = "constructed"
    /\ Len(tokens) = Len(ExpectedB)
    /\ \A k \in 1..Len(tokens) : tokens[k][3] = FirstLine + 1

----------------------------------------------------------------------------
(* C11: scenario C.  The input x <= 3 yields exactly IDENTIFIER x,         *)
(* OPERATOR <=, NUMBER 3, all on line 1.                                   *)

ExpectedC ==
    << <<"IDENTIFIER", "x", 1>>, <<"OPERATOR", "<=", 1>>,
       <<"NUMBER", "3", 1>> >>

C11_ScenarioC ==
    input = ScenarioC =>
        /\ pc # "failed"
        /\ pc = "returned" => tokens = ExpectedC

----------------------------------------------------------------------------
(* C12: the blank space (spaces, tabs, newlines) at the very start of the  *)
(* text is removed before the scan and does not move the line counter: a   *)
(* token that begins at the first non-blank character is recorded with     *)
(* line 1, however many blank lines precede it, and the counter goes on    *)
(* from that line: it never counts more than the newlines of the stripped  *)
(* text the scan has gone past (exactly those, where no = is folded).      *)
(* The counting half is stated on the sources that hold no /.              *)

\* number of blank characters at the start of s, counted from position i
RECURSIVE LeadingBlanks(_, _)
LeadingBlanks(s, i) ==
    IF i <= Len(s) /\ s[i] \in {" ", "\t", "\n"}
    THEN 1 + LeadingBlanks(s, i + 1)
    ELSE 0

\* s without its leading blank characters
Stripped(s) == SubSeq(s, LeadingBlanks(s, 1) + 1, Len(s))

\* the kinds a token that begins with character c can have
KindsFrom(c) ==
    CASE c \in Digits -> {"NUMBER"}
      [] c \in Letters \cup {"_"} -> {"IDENTIFIER", "IF", "ELSE", "WHILE"}
      [] c \in {"+", "-", "*", "/", "<", ">", "="} -> {"OPERATOR", "ASSIGN"}
      [] c = "{" -> {"LBRACE"}
      [] c = "}" -> {"RBRACE"}
      [] c = "(" -> {"LPAREN"}
      [] c = ")" -> {"RPAREN"}
      [] OTHER -> {}

\* the first non-blank character of s begins a token (not a comment)
BeginsWithToken(s) ==
    LET t == Stripped(s)
    IN  /\ t # <<>>
        /\ KindsFrom(t[1]) # {}
        /\ ~(Len(t) >= 2 /\ t[1] = "/" /\ t[2] = "/")

\* number of newlines of s
RECURSIVE NewlineCount(_)
NewlineCount(s) ==
    IF s = <<>> THEN 0
    ELSE (IF Head(s) = "\n" THEN 1 ELSE 0) + NewlineCount(Tail(s))

NoEquals(s) == \A k \in 1..Len(s) : s[k] # "="

----------------------------------------------------------------------------
(* C13: termination.  Every iteration of the scan loop strictly advances   *)
(* the cursor, and only while it is inside the source, so a call makes at  *)
(* most len(source) iterations; once in the loop, tokenize eventually      *)
(* returns or fails.                                                       *)

C13_Advance ==
    (pc = "loop" /\ pc' = "loop") =>
        /\ 0 <= index
        /\ index < Len(source_code)
        /\ index' > index

C13_Termination == [][C13_Advance]_vars /\ (pc = "loop" ~> Finished)

\* a call that went through a source of several characters to its end
C13_Witness ==
    /\ pc = "returned"
    /\ entered_from = "constructed"
    /\ Len(source_code) >= 4
    /\ index >= Len(source_code)

----------------------------------------------------------------------------
(* C14: terminator reprocessing.  The character that ends a number, an     *)
(* identifier or keyword, or a bare = is dispatched against Start's rules  *)
(* once the pending token is emitted: it is neither skipped nor consumed   *)
(* twice.  5+3 followed by a space yields NUMBER, OPERATOR, NUMBER and f(  *)
(* followed by a space yields IDENTIFIER, LPAREN.                          *)

\* the step that meets the character ending the pending token
TerminatorStep ==
    /\ pc = "loop"
    /\ index < Len(source_code)
    /\ \/ state = "IN_NUMBER" /\ source_code[index + 1] \notin Digits
       \/ state = "IN_IDENTIFIER" /\ ~IdentChar(source_code[index + 1])
       \/ state = "IN_OPERATOR" /\ current_token = "="
            /\ source_code[index + 1] # "="

\* the terminator c is dispatched at Start: in the same iteration (the step
\* ends as Start's rule for c leaves it) or in the next one (the cursor
\* stays on c)
DispatchedAtStart(c) ==
    \/ /\ index' = index
       /\ state' = "START"
       /\ current_token' = ""
       /\ pc' = "loop"
    \/ /\ index' = index + 1
       /\ CASE c \in Digits -> state' = "IN_NUMBER" /\ current_token' = c
            [] c \in Letters \cup {"_"} ->
                 state' = "IN_IDENTIFIER" /\ current_token' = c
            [] c \in {"+", "-", "*", "/", "<", ">", "="} ->
                 state' = "IN_OPERATOR" /\ current_token' = c
            [] c \in {" ", "\t", "\n"} ->
                 state' = "START" /\ current_token' = ""
            [] c \in {"{", "}", "(", ")"} ->
                 /\ state' = "START"
                 /\ current_token' = ""
                 /\ tokens'[Len(tokens')][2] = c
            [] OTHER -> FALSE
    \/ /\ c \notin Recognized
       /\ pc' = "failed"

C14_Step ==
    TerminatorStep =>
        /\ Len(tokens') >= Len(tokens) + 1
        /\ tokens'[Len(tokens) + 1][2] = current_token
        /\ DispatchedAtStart(source_code[index + 1])

C14_Examples ==
    /\ (input = ExampleSum /\ pc = "returned") =>
          tokens = << <<"NUMBER", "5", 1>>, <<"OPERATOR", "+", 1>>,
                      <<"NUMBER", "3", 1>> >>
    /\ (input = ExampleCall /\ pc = "returned") =>
          tokens = << <<"IDENTIFIER", "f", 1>>, <<"LPAREN", "(", 1>> >>

C14_TerminatorReprocessed == [](C14_Examples) /\ [][C14_Step]_vars

----------------------------------------------------------------------------
(* C15: when InOperator folds a following = into the buffer, exactly that  *)
(* = is consumed: the OPERATOR with the two-character lexeme is emitted    *)
(* and the character right after the = is the next one dispatched at Start.*)

FoldStep ==
    /\ pc = "loop"
    /\ index < Len(source_code)
    /\ state = "IN_OPERATOR"
    /\ source_code[index + 1] = "="
    /\ current_token \in {"=", "<", ">"}

C15_Step ==
    FoldStep =>
        /\ tokens' = Append(tokens,
                            <<"OPERATOR", current_token \o "=", line_number>>)
        /\ state' = "START"
        /\ current_token' = ""
        /\ index' = index + 1

C15_FoldConsumesOne == [][C15_Step]_vars

----------------------------------------------------------------------------
(* C16: + - * never form compound operators.  Every OPERATOR token with a  *)
(* two-character lexeme is ==, <= or >=; + - * followed by = are emitted   *)
(* as one-character OPERATOR tokens.                                       *)

C16_CompoundOperators ==
    \A k \in 1..Len(tokens) :
        tokens[k][1] = "OPERATOR" =>
            tokens[k][2] \in {"+", "-", "*", "/", "<", ">", "==", "<=", ">="}

----------------------------------------------------------------------------
(* C17: a // comment, whatever the length of its text, is discarded up to  *)
(* and including the next newline (or the end of input), emits no token,   *)
(* moves the line counter by exactly one and leaves Start with an empty    *)
(* buffer.                                                                 *)

CommentStep ==
    /\ pc = "loop"
    /\ index < Len(source_code)
    /\ state = "IN_COMMENT"

C17_Step ==
    CommentStep =>
        /\ tokens' = tokens
        /\ state' = "START"
        /\ current_token' = ""
        /\ line_number' = line_number + 1
        /\ index' = NewlineFrom(source_code, index + 1)

C17_CommentSkipped == [][C17_Step]_vars

----------------------------------------------------------------------------
(* C18: every newline of the stripped source moves the line counter by     *)
(* exactly one, in whichever state it is consumed: the counter is 1 + the  *)
(* number of newlines the scan has gone past, which is the line every      *)
(* token records.  Stated on the sources whose comments all end in a       *)
(* newline.                                                                *)

CommentsEnded(s) == NoSlash(s) \/ (s # <<>> /\ s[Len(s)] = "\n")

C18_LineCounter ==
    (pc \in {"loop", "returned", "failed"} /\ CommentsEnded(source_code)) =>
        line_number = 1 + NewlineCount(Scanned)

----------------------------------------------------------------------------
(* C19: a source that holds, outside a comment, a character of no          *)
(* recognized class never completes: the scan ends in the failure for      *)
(* that character.                                                         *)

\* the first unrecognized character of s outside comments, from position i
\* on ("" when there is none)
RECURSIVE FirstBad(_, _)
FirstBad(s, i) ==
    IF i > Len(s) THEN ""
    ELSE IF s[i] = "/" /\ i + 1 <= Len(s) /\ s[i + 1] = "/"
    THEN FirstBad(s, NewlineFrom(s, i + 2) + 1)
    ELSE IF s[i] \notin Recognized THEN s[i]
    ELSE FirstBad(s, i + 1)

C19_BadCharacterAborts ==
    (Finished /\ FirstBad(source_code, 1) # "") =>
        /\ pc = "failed"
        /\ error # <<>>
        /\ error[1] = FirstBad(source_code, 1)

----------------------------------------------------------------------------
(* C20: every emission clears the buffer and returns to Start; in every    *)
(* reachable state, Start has an empty buffer and InNumber, InIdentifier   *)
(* and InOperator have a non-empty one.                                    *)

C20_State ==
    /\ state = "START" => current_token = ""
    /\ state \in {"IN_NUMBER", "IN_IDENTIFIER", "IN_OPERATOR"} =>
          current_token # ""

C20_Step ==
    Len(tokens') > Len(tokens) => (state' = "START" /\ current_token' = "")

C20_EmissionInvariant == [](C20_State) /\ [][C20_Step]_vars

----------------------------------------------------------------------------
(* C21: on a source whose characters outside // comments are all           *)
(* recognized, tokenize never fails with UnexpectedCharacter, whether the  *)
(* text ends inside a token, inside a comment, after a compound operator   *)
(* or in blank space, and no step reads the source at or beyond its length *)

\* position k of s lies in a // comment: a // before it on the same line
InComment(s, k) ==
    \E j \in 1..(k - 1) :
        /\ s[j] = "/"
        /\ s[j + 1] = "/"
        /\ \A m \in j..k : s[m] # "\n"

\* every character of s is recognized or lies in a // comment
Clean(s) == \A k \in 1..Len(s) : s[k] \in Recognized \/ InComment(s, k)

\* a step of the scan loop that reads source_code[index]
C21_Step ==
    (pc = "loop" /\ (index' # index \/ pc' = "failed"))
        => index < Len(source_code)

C21_NeverRaises ==
    /\ [](Clean(source_code) => pc # "failed")
    /\ [][C21_Step]_vars

----------------------------------------------------------------------------
(* C22: lexeme well-formedness.  In every reachable state every emitted    *)
(* token has a non-empty lexeme that fits its kind: a NUMBER is made of    *)
(* digits only; an IDENTIFIER begins with a letter or _, holds only        *)
(* letters, digits and _, and is no reserved word; ASSIGN is =; an         *)
(* OPERATOR is one of + - * / < > alone or followed by =, or ==, never the *)
(* bare = nor //; LBRACE, RBRACE, LPAREN, RPAREN are { } ( ); a keyword    *)
(* kind carries its own word                                               *)

\* the stretches of the source that spell the lexeme w
Spellings(w) ==
    { cs \in { SubSeq(source_code, a, a + Len(w) - 1) :
                   a \in 1..(Len(source_code) - Len(w) + 1) } :
        Str(cs) = w }

OperatorLexemes ==
    {"+", "-", "*", "/", "<", ">",
     "+=", "-=", "*=", "/=", "<=", ">=", "=="}

WellFormed(t) ==
    LET kind == t[1]
        w == t[2]
    IN  /\ w # ""
        /\ CASE kind = "NUMBER" ->
                  \E cs \in Spellings(w) :
                      \A k \in 1..Len(cs) : cs[k] \in Digits
             [] kind = "IDENTIFIER" ->
                  /\ w \notin Keywords
                  /\ \E cs \in Spellings(w) :
                        /\ cs[1] \in Letters \cup {"_"}
                        /\ \A k \in 1..Len(cs) : IdentChar(cs[k])
             [] kind = "ASSIGN" -> w = "="
             [] kind = "OPERATOR" ->
                  w \in OperatorLexemes /\ w # "=" /\ w # "//"
             [] kind = "LBRACE" -> w = "{"
             [] kind = "RBRACE" -> w = "}"
             [] kind = "LPAREN" -> w = "("
             [] kind = "RPAREN" -> w = ")"
             [] kind \in {"IF", "ELSE", "WHILE"} ->
                  w \in Keywords /\ kind = Upper(w)
             [] OTHER -> FALSE

C22_LexemeWellFormed ==
    \A k \in 1..Len(tokens) : WellFormed(tokens[k])

\* the scan of the test's text has returned, with tokens of every kind
\* but WHILE and the parentheses
C22_Witness ==
    /\ pc = "returned"
    /\ input = TestSource
    /\ \A kind \in {"NUMBER", "IDENTIFIER", "ASSIGN", "OPERATOR", "LBRACE",
                    "RBRACE", "IF", "ELSE"} :
           \E k \in 1..Len(tokens) : tokens[k][1] = kind

====
